---- MODULE Spec2Model ----
(***************************************************************************)
(* Triathlon merger: the shared core (core.py), the command line front end *)
(* (cli.py) and the browser front end (app.py).                            *)
(*                                                                         *)
(* Representation.                                                         *)
(*   datetime        [wall, off]: the wall clock reading and the UTC       *)
(*                   offset of its tzinfo, in seconds; the instant it      *)
(*                   denotes is wall - off.  Python compares and subtracts *)
(*                   aware datetimes by instant.                           *)
(*   ISO-8601 text   <<wall, off>>: the text "wall+off" ("Z" is off = 0).  *)
(*   None            the record [none |-> TRUE].                           *)
(*   number or None  Some(n) or None.                                      *)
(*   a call          a record with a field "raised": FALSE with the        *)
(*                   returned values, or TRUE with the exception "exc".    *)
(***************************************************************************)
EXTENDS Integers, Sequences, FiniteSets, TLC

\* ------------------------------------------------------------------ bounds
\* Largest wall clock reading of a recorded sample.
MaxT == 1
\* Largest number of track points in one recording.
MaxPts == 2
\* Largest UTC offset a recording's timestamps are written with.
MaxOff == 1

Walls == 0..MaxT
Offsets == 0..MaxOff

\* ------------------------------------------------------------- Python values
None == [none |-> TRUE]
Some(n) == [val |-> n]
Raise(e) == [raised |-> TRUE, exc |-> e]

\* Truth value of a dict-or-None: the leg dicts always hold their five keys.
Truthy(x) == x # None

IsDt(d) == DOMAIN d = {"wall", "off"}
Instant(d) == d.wall - d.off
\* d + timedelta(seconds = secs): the tzinfo is kept.
DtAdd(d, secs) == [wall |-> d.wall + secs, off |-> d.off]
\* Python's == on aware datetimes.
DtEq(a, b) == IF IsDt(a) /\ IsDt(b) THEN Instant(a) = Instant(b) ELSE a = b

Max(a, b) == IF a >= b THEN a ELSE b

\* Sequencing of statements: K applied to the value of v, which is computed once.
Then(v, K(_)) == CHOOSE y \in {K(x) : x \in {v}} : TRUE

\* ------------------------------------------------------------- time helpers
iso_to_dt(s) == [wall |-> s[1], off |-> s[2]]

dt_to_iso(d) == <<d.wall - d.off, 0>>

fmt_dt_human(dt) == dt.wall

SPORT_MAP == [swim |-> "Swimming", bike |-> "Biking", run |-> "Running", transition |-> "Other"]

SWIM_DISTANCE_M == None

\* ---------------------------------------------------------- timeline helpers
rebase_noempty(points, new_start) ==
    LET src0 == iso_to_dt(points[1].time)
        shift == Instant(new_start) - Instant(src0)
        out == [i \in 1..Len(points) |->
                  [points[i] EXCEPT !.time = dt_to_iso(DtAdd(iso_to_dt(points[i].time), shift))]]
    IN  IF points = <<>> THEN Raise("IndexError")
        ELSE [raised |-> FALSE, pts |-> out,
              start |-> iso_to_dt(out[1].time), stop |-> iso_to_dt(out[Len(out)].time)]

rebase_naive(points, new_start) ==
    IF points = <<>>
    THEN [raised |-> FALSE, pts |-> <<>>, start |-> new_start, stop |-> new_start]
    ELSE LET src0 == iso_to_dt(points[1].time)
             shift == new_start.wall - src0.wall
             out == [i \in 1..Len(points) |->
                       [points[i] EXCEPT
                          !.time = dt_to_iso(DtAdd(iso_to_dt(points[i].time), shift))]]
         IN  [raised |-> FALSE, pts |-> out,
              start |-> iso_to_dt(out[1].time), stop |-> iso_to_dt(out[Len(out)].time)]

rebase_timeonly(points, new_start) ==
    IF points = <<>>
    THEN [raised |-> FALSE, pts |-> <<>>, start |-> new_start, stop |-> new_start]
    ELSE LET src0 == iso_to_dt(points[1].time)
             shift == Instant(new_start) - Instant(src0)
             out == [i \in 1..Len(points) |->
                       [time |-> dt_to_iso(DtAdd(iso_to_dt(points[i].time), shift)),
                        hr |-> None]]
         IN  [raised |-> FALSE, pts |-> out,
              start |-> iso_to_dt(out[1].time), stop |-> iso_to_dt(out[Len(out)].time)]

rebase(points, new_start) ==
    IF points = <<>>
    THEN [raised |-> FALSE, pts |-> <<>>, start |-> new_start, stop |-> new_start]
    ELSE IF ~IsDt(new_start) THEN Raise("TypeError")
    ELSE LET src0 == iso_to_dt(points[1].time)
             shift == Instant(new_start) - Instant(src0)
             out == [i \in 1..Len(points) |->
                       [points[i] EXCEPT
                          !.time = dt_to_iso(DtAdd(iso_to_dt(points[i].time), shift))]]
         IN  [raised |-> FALSE, pts |-> out,
              start |-> iso_to_dt(out[1].time), stop |-> iso_to_dt(out[Len(out)].time)]

\* The caller's list after rebase(points, new_start) returned: each point is copied
\* (q = dict(p)) before its time is set, and out is a new list.
rebase_points_after(points, new_start) == points

infer_gaps_noclamp(swim, bike, run) ==
    IF ~(IsDt(bike.start) /\ IsDt(swim.stop) /\ IsDt(run.start) /\ IsDt(bike.stop))
    THEN Raise("TypeError")
    ELSE [raised |-> FALSE,
          t1 |-> Instant(bike.start) - Instant(swim.stop),
          t2 |-> Instant(run.start) - Instant(bike.stop)]

infer_gaps(swim, bike, run) ==
    IF ~(IsDt(bike.start) /\ IsDt(swim.stop) /\ IsDt(run.start) /\ IsDt(bike.stop))
    THEN Raise("TypeError")
    ELSE [raised |-> FALSE,
          t1 |-> Max(0, Instant(bike.start) - Instant(swim.stop)),
          t2 |-> Max(0, Instant(run.start) - Instant(bike.stop))]

\* ---------------------------------------------------------------- TCX build
\* An Activity element: Id, Lap StartTime, TotalTimeSeconds, DistanceMeters, the
\* Track and the Notes.  stop_iso is the argument the lap time is computed from.
make_activity(start_iso, sport, label, points, stop_iso, lap_distance_m) ==
    [Sport |-> sport,
     Id |-> start_iso,
     StartTime |-> start_iso,
     TotalTimeSeconds |-> Max(0, Instant(iso_to_dt(stop_iso)) - Instant(iso_to_dt(start_iso))),
     DistanceMeters |-> IF lap_distance_m # None THEN lap_distance_m ELSE Some(0),
     Track |-> [i \in 1..Len(points) |-> points[i].time],
     Notes |-> label,
     stop_iso |-> stop_iso]

build_plan_from_files(swim, bike, run, t1, t2, infer_missing) ==
    IF ~(Truthy(swim) /\ Truthy(bike) /\ Truthy(run))
    THEN [raised |-> FALSE, plan |-> None, err |-> Some("Need Swim, Bike, and Run.")]
    ELSE LET plan == [swim |-> swim, bike |-> bike, run |-> run,
                      t1_file |-> t1, t2_file |-> t2,
                      t1_inferred |-> None, t2_inferred |-> None]
         IN  IF infer_missing
             THEN Then(infer_gaps(swim, bike, run), LAMBDA g :
                  IF g.raised THEN Raise(g.exc)
                  ELSE [raised |-> FALSE, err |-> None,
                        plan |-> [plan EXCEPT
                           !.t1_inferred = IF t1 = None THEN Some(g.t1) ELSE None,
                           !.t2_inferred = IF t2 = None THEN Some(g.t2) ELSE None]])
             ELSE [raised |-> FALSE, plan |-> plan, err |-> None]

\* The state of build_tcx_from_plan's body: the Activities appended so far, the
\* ids list, and (compact mode) the cursor.
TcxStart == [raised |-> FALSE, activities |-> <<>>, ids |-> <<>>, cursor |-> None]

\* activities.append(make_activity(dt_to_iso(start), ...)); ids.append(dt_to_iso(start))
append_activity(st, start, sport, label, points, stop, dist) ==
    IF st.raised THEN st
    ELSE IF ~IsDt(start) \/ ~IsDt(stop) THEN Raise("AttributeError")
    ELSE [st EXCEPT
            !.activities = Append(@, make_activity(dt_to_iso(start), sport, label,
                                                   points, dt_to_iso(stop), dist)),
            !.ids = Append(@, dt_to_iso(start))]

add_item_normalised(st, item, sport_key, label, dist) ==
    IF st.raised THEN st
    ELSE IF ~IsDt(item.start) \/ ~IsDt(item.stop) THEN Raise("AttributeError")
    ELSE [st EXCEPT
            !.activities = Append(@, make_activity(dt_to_iso(item.start), SPORT_MAP[sport_key],
                                     label,
                                     [i \in 1..Len(item.points) |->
                                        [item.points[i] EXCEPT
                                           !.time = dt_to_iso(iso_to_dt(item.points[i].time))]],
                                     dt_to_iso(item.stop), dist)),
            !.ids = Append(@, dt_to_iso(item.start))]

add_item(st, item, sport_key, label, dist) ==
    IF st.raised THEN st
    ELSE IF ~IsDt(item.start) \/ ~IsDt(item.stop) THEN Raise("AttributeError")
    ELSE [st EXCEPT
            !.activities = Append(@, make_activity(dt_to_iso(item.start), SPORT_MAP[sport_key],
                                                   label, item.points, dt_to_iso(item.stop), dist)),
            !.ids = Append(@, dt_to_iso(item.start))]

inferred_transition_skipzero(st, ts, secs, label) ==
    IF st.raised THEN st
    ELSE IF ~IsDt(ts) THEN Raise("TypeError")
    ELSE IF secs = 0 THEN st
    ELSE LET te == DtAdd(ts, secs)
             pts == <<[time |-> dt_to_iso(ts)], [time |-> dt_to_iso(te)]>>
         IN  append_activity(st, ts, SPORT_MAP["transition"], label, pts, te, None)

\* The synthetic two-point bracket of an inferred transition from instant ts.
inferred_transition(st, ts, secs, label) ==
    IF st.raised THEN st
    ELSE IF ~IsDt(ts) THEN Raise("TypeError")
    ELSE LET te == DtAdd(ts, secs)
             pts == <<[time |-> dt_to_iso(ts)], [time |-> dt_to_iso(te)]>>
         IN  append_activity(st, ts, SPORT_MAP["transition"], label, pts, te, None)

\* compact = False: every leg with its own timestamps.
tcx_verbatim(plan, swim_dist_m) ==
    Then(add_item(TcxStart, plan.swim, "swim", "Swim", swim_dist_m), LAMBDA a1 :
    Then(IF plan.t1_file # None
         THEN add_item(a1, plan.t1_file, "transition", "Transition T1", None)
         ELSE IF plan.t1_inferred # None
         THEN inferred_transition(a1, plan.swim.stop, plan.t1_inferred.val, "Transition T1")
         ELSE a1, LAMBDA a2 :
    Then(add_item(a2, plan.bike, "bike", "Bike", None), LAMBDA a3 :
    Then(IF plan.t2_file # None
         THEN add_item(a3, plan.t2_file, "transition", "Transition T2", None)
         ELSE IF plan.t2_inferred # None
         THEN inferred_transition(a3, plan.bike.stop, plan.t2_inferred.val, "Transition T2")
         ELSE a3, LAMBDA a4 :
    add_item(a4, plan.run, "run", "Run", None)))))

\* compact = True, one leg: rebase onto the cursor, emit, advance the cursor.
compact_leg_nocursor(st, points, sport_key, label, dist) ==
    IF st.raised THEN st
    ELSE Then(rebase(points, st.cursor), LAMBDA r :
         IF r.raised THEN Raise(r.exc)
         ELSE append_activity(st, r.start, SPORT_MAP[sport_key], label, r.pts, r.stop, dist))

compact_leg_unrebased(st, points, sport_key, label, dist) ==
    IF st.raised THEN st
    ELSE Then(rebase(points, IF points = <<>> THEN st.cursor ELSE iso_to_dt(points[1].time)),
              LAMBDA r :
         IF r.raised THEN Raise(r.exc)
         ELSE Then(append_activity(st, r.start, SPORT_MAP[sport_key], label,
                                   r.pts, r.stop, dist), LAMBDA a :
              IF a.raised THEN a ELSE [a EXCEPT !.cursor = r.stop]))

compact_leg(st, points, sport_key, label, dist) ==
    IF st.raised THEN st
    ELSE Then(rebase(points, st.cursor), LAMBDA r :
         IF r.raised THEN Raise(r.exc)
         ELSE Then(append_activity(st, r.start, SPORT_MAP[sport_key], label,
                                   r.pts, r.stop, dist), LAMBDA a :
              IF a.raised THEN a ELSE [a EXCEPT !.cursor = r.stop]))

compact_inferred_nocursor(st, secs, label) ==
    IF st.raised THEN st
    ELSE inferred_transition(st, st.cursor, secs, label)

\* compact = True, an inferred transition: the bracket at the cursor, which advances.
compact_inferred(st, secs, label) ==
    IF st.raised THEN st
    ELSE Then(inferred_transition(st, st.cursor, secs, label), LAMBDA a :
         IF a.raised THEN a ELSE [a EXCEPT !.cursor = DtAdd(st.cursor, secs)])

tcx_compact(plan, swim_dist_m) ==
    Then(compact_leg([TcxStart EXCEPT !.cursor = plan.swim.start],
                     plan.swim.points, "swim", "Swim", swim_dist_m), LAMBDA a1 :
    Then(IF plan.t1_file # None
         THEN compact_leg(a1, plan.t1_file.points, "transition", "Transition T1", None)
         ELSE IF plan.t1_inferred # None
         THEN compact_inferred(a1, plan.t1_inferred.val, "Transition T1")
         ELSE a1, LAMBDA a2 :
    Then(compact_leg(a2, plan.bike.points, "bike", "Bike", None), LAMBDA a3 :
    Then(IF plan.t2_file # None
         THEN compact_leg(a3, plan.t2_file.points, "transition", "Transition T2", None)
         ELSE IF plan.t2_inferred # None
         THEN compact_inferred(a3, plan.t2_inferred.val, "Transition T2")
         ELSE a3, LAMBDA a4 :
    compact_leg(a4, plan.run.points, "run", "Run", None)))))

\* The MultiSportSession: FirstSport, then one NextSport per further id.
link_multisport_earliest_first(ids) ==
    LET lo == CHOOSE i \in 1..Len(ids) : \A j \in 1..Len(ids) : ids[i][1] <= ids[j][1]
    IN  [first |-> ids[lo],
         next |-> [k \in 1..(Len(ids) - 1) |-> ids[IF k < lo THEN k ELSE k + 1]]]

link_multisport(ids) ==
    [first |-> ids[1], next |-> Tail(ids)]

build_tcx_from_plan(plan, compact, swim_dist_m) ==
    Then(IF ~compact THEN tcx_verbatim(plan, swim_dist_m)
         ELSE tcx_compact(plan, swim_dist_m), LAMBDA st :
    IF st.raised THEN st
    ELSE [raised |-> FALSE,
          doc |-> [activities |-> st.activities, session |-> link_multisport(st.ids)]])

\* ------------------------------------------------------------------ summary
\* The state of summary_lines_from_plan's body: the lines so far and the cursor.
SumStart == [raised |-> FALSE, lines |-> <<>>, cursor |-> None]

\* One preview line.  start and stop are the datetimes the line renders,
\* start_txt and stop_txt their rendering, m and s the bracketed duration.
line(st, label, start, stop, count) ==
    IF st.raised THEN st
    ELSE IF ~IsDt(start) \/ ~IsDt(stop) THEN Raise("TypeError")
    ELSE LET dur == Instant(stop) - Instant(start)
         IN  [st EXCEPT !.lines = Append(@,
                [label |-> label, start |-> start, stop |-> stop,
                 start_txt |-> fmt_dt_human(start), stop_txt |-> fmt_dt_human(stop),
                 m |-> dur \div 60, s |-> dur % 60, count |-> count])]

summary_inferred(st, ts, secs, label) ==
    IF st.raised THEN st
    ELSE IF ~IsDt(ts) THEN Raise("TypeError")
    ELSE line(st, label, ts, DtAdd(ts, secs), None)

summary_verbatim(plan) ==
    Then(line(SumStart, "Swim", plan.swim.start, plan.swim.stop, Some(plan.swim.count)),
         LAMBDA l1 :
    Then(IF Truthy(plan.t1_file)
         THEN line(l1, "T1 (file)", plan.t1_file.start, plan.t1_file.stop,
                   Some(plan.t1_file.count))
         ELSE IF plan.t1_inferred # None
         THEN summary_inferred(l1, plan.swim.stop, plan.t1_inferred.val, "T1 (inferred)")
         ELSE l1, LAMBDA l2 :
    Then(line(l2, "Bike", plan.bike.start, plan.bike.stop, Some(plan.bike.count)),
         LAMBDA l3 :
    Then(IF Truthy(plan.t2_file)
         THEN line(l3, "T2 (file)", plan.t2_file.start, plan.t2_file.stop,
                   Some(plan.t2_file.count))
         ELSE IF plan.t2_inferred # None
         THEN summary_inferred(l3, plan.bike.stop, plan.t2_inferred.val, "T2 (inferred)")
         ELSE l3, LAMBDA l4 :
    line(l4, "Run", plan.run.start, plan.run.stop, Some(plan.run.count))))))

\* Compact mode, one leg: "_, a, b = rebase(points, cursor); line(...); cursor = b".
summary_leg(st, leg, label) ==
    IF st.raised THEN st
    ELSE Then(rebase(leg.points, st.cursor), LAMBDA r :
         IF r.raised THEN Raise(r.exc)
         ELSE Then(line(st, label, r.start, r.stop, Some(leg.count)), LAMBDA l :
              IF l.raised THEN l ELSE [l EXCEPT !.cursor = r.stop]))

summary_compact_inferred(st, secs, label) ==
    IF st.raised THEN st
    ELSE Then(summary_inferred(st, st.cursor, secs, label), LAMBDA l :
         IF l.raised THEN l ELSE [l EXCEPT !.cursor = DtAdd(st.cursor, secs)])

summary_compact(plan) ==
    Then(summary_leg([SumStart EXCEPT !.cursor = plan.swim.start], plan.swim, "Swim"),
         LAMBDA l1 :
    Then(IF Truthy(plan.t1_file)
         THEN summary_leg(l1, plan.t1_file, "T1 (file)")
         ELSE IF plan.t1_inferred # None
         THEN summary_compact_inferred(l1, plan.t1_inferred.val, "T1 (inferred)")
         ELSE l1, LAMBDA l2 :
    Then(summary_leg(l2, plan.bike, "Bike"), LAMBDA l3 :
    Then(IF Truthy(plan.t2_file)
         THEN summary_leg(l3, plan.t2_file, "T2 (file)")
         ELSE IF plan.t2_inferred # None
         THEN summary_compact_inferred(l3, plan.t2_inferred.val, "T2 (inferred)")
         ELSE l3, LAMBDA l4 :
    summary_leg(l4, plan.run, "Run")))))

summary_lines_from_plan(plan, compact) ==
    Then(IF ~compact THEN summary_verbatim(plan) ELSE summary_compact(plan), LAMBDA st :
    IF st.raised THEN st ELSE [raised |-> FALSE, lines |-> st.lines])

\* ------------------------------------------------------------ command line
VARIABLES
    pc,         \* position in main()
    fs,         \* per role: the recording the configured path holds, or None (no path)
    config,     \* INFER_MISSING and COMPACT
    legs,       \* what _read_points returned per role, once read
    plan,       \* the plan, once built
    stdout,     \* what has been printed
    stderr,     \* the exit message or the uncaught exception
    xml_bytes,  \* the built document
    out_file,   \* the written OUT_FILE
    files_cache,\* app.py: the scanned files
    tbody,      \* app.py: the table rows, top first: file name and selected role
    dom,        \* app.py: the infer and compact checkboxes and the mergeStatus text
    download,   \* app.py: the document handed to the browser as triathlon.tcx
    rb,         \* the arguments and results of the rebase calls under study
    sl,         \* the arguments and the result of the summary line call under study
    tasks       \* app.py: the scan_click coroutines, in the order they were started

cliVars == <<fs, config, legs, stdout, stderr, out_file>>
appVars == <<files_cache, tbody, dom, download>>
vars == <<pc, fs, config, legs, plan, stdout, stderr, xml_bytes, out_file,
          files_cache, tbody, dom, download, rb, sl, tasks>>

\* A track point as the readers return it; hr stands for the optional fields.
Point(w, off) == [time |-> <<w, off>>, hr |-> None]

\* The recordings a file can hold, all timestamps written with offset off.
Recordings(off) ==
    UNION {[1..n -> {Point(w, off) : w \in Walls}] : n \in 0..MaxPts}

Roles == {"swim", "bike", "run", "t1", "t2"}

\* A file: the track points parse_any reads from its text.
File(pts) == [pts |-> pts]

read_points(name, file) ==
    IF file = None THEN None
    ELSE LET pts == file.pts
         IN  [name |-> name,
              points |-> pts,
              start |-> IF pts # <<>> THEN iso_to_dt(pts[1].time) ELSE None,
              stop |-> IF pts # <<>> THEN iso_to_dt(pts[Len(pts)].time) ELSE None,
              count |-> Len(pts)]

\* The browser front end at rest: nothing scanned, nothing clicked.
AppIdle ==
    /\ files_cache = <<>>
    /\ tbody = <<>>
    /\ dom = None
    /\ download = None

\* The command line front end not started.
CliIdle ==
    /\ fs = None
    /\ config = None
    /\ legs = None
    /\ stdout = <<>>
    /\ stderr = None
    /\ out_file = None

InitCli ==
    /\ pc = "main"
    /\ \E off \in Offsets :
          fs \in [Roles -> {File(p) : p \in Recordings(off)} \cup {None}]
    /\ config \in [INFER_MISSING : BOOLEAN, COMPACT : BOOLEAN]
    /\ legs = None
    /\ plan = None
    /\ stdout = <<>>
    /\ stderr = None
    /\ xml_bytes = None
    /\ out_file = None
    /\ AppIdle
    /\ rb = None
    /\ sl = None
    /\ tasks = <<>>

\* main, lines 47-51
main_read ==
    /\ pc = "main"
    /\ legs' = [r \in Roles |-> read_points(r, fs[r])]
    /\ pc' = "read"
    /\ UNCHANGED <<fs, config, plan, stdout, stderr, xml_bytes, out_file, appVars, rb, sl, tasks>>

main_plan_header_first ==
    /\ pc = "read"
    /\ \E res \in {build_plan_from_files(legs["swim"], legs["bike"], legs["run"],
                                         legs["t1"], legs["t2"], config.INFER_MISSING)} :
           IF res.raised
           THEN /\ pc' = "traceback"
                /\ stderr' = Some(res.exc)
                /\ plan' = plan
                /\ stdout' = stdout
           ELSE IF res.err # None
           THEN /\ pc' = "exit"
                /\ stderr' = res.err
                /\ plan' = plan
                /\ stdout' = Append(stdout, [label |-> "=== Merge Preview ==="])
           ELSE /\ pc' = "planned"
                /\ stderr' = stderr
                /\ plan' = res.plan
                /\ stdout' = stdout
    /\ UNCHANGED <<fs, config, legs, xml_bytes, out_file, appVars, rb, sl, tasks>>

\* main, lines 53-59
main_plan ==
    /\ pc = "read"
    /\ \E res \in {build_plan_from_files(legs["swim"], legs["bike"], legs["run"],
                                         legs["t1"], legs["t2"], config.INFER_MISSING)} :
           IF res.raised
           THEN /\ pc' = "traceback"
                /\ stderr' = Some(res.exc)
                /\ plan' = plan
           ELSE IF res.err # None
           THEN /\ pc' = "exit"
                /\ stderr' = res.err
                /\ plan' = plan
           ELSE /\ pc' = "planned"
                /\ stderr' = stderr
                /\ plan' = res.plan
    /\ UNCHANGED <<fs, config, legs, stdout, xml_bytes, out_file, appVars, rb, sl, tasks>>

\* main, lines 62-64
main_preview ==
    /\ pc = "planned"
    /\ \E res \in {summary_lines_from_plan(plan, config.COMPACT)},
          header \in {<<[label |-> "=== Merge Preview ==="]>>} :
           IF res.raised
           THEN /\ pc' = "traceback"
                /\ stderr' = Some(res.exc)
                /\ stdout' = stdout \o header
           ELSE /\ pc' = "previewed"
                /\ stderr' = stderr
                /\ stdout' = stdout \o header \o res.lines
    /\ UNCHANGED <<fs, config, legs, plan, xml_bytes, out_file, appVars, rb, sl, tasks>>

\* main, lines 67-71
main_build ==
    /\ pc = "previewed"
    /\ \E res \in {build_tcx_from_plan(plan, config.COMPACT, SWIM_DISTANCE_M)} :
           IF res.raised
           THEN /\ pc' = "traceback"
                /\ stderr' = Some(res.exc)
                /\ xml_bytes' = xml_bytes
           ELSE /\ pc' = "built"
                /\ stderr' = stderr
                /\ xml_bytes' = res.doc
    /\ UNCHANGED <<fs, config, legs, plan, stdout, out_file, appVars, rb, sl, tasks>>

\* main, lines 73-76
main_write ==
    /\ pc = "built"
    /\ out_file' = xml_bytes
    /\ stdout' = Append(stdout, [label |-> "Wrote"])
    /\ pc' = "done"
    /\ UNCHANGED <<fs, config, legs, plan, stderr, xml_bytes, appVars, rb, sl, tasks>>

\* ------------------------------------------------------------------ browser
\* Largest number of rows of the file table.
MaxRows == 5
\* Largest number of track points of a scanned file.
MaxRowPts == 1

RoleValues == {"swim", "bike", "run", "transition"}

FileName(i) == <<"file", i>>

\* next((x for x in seq if P(x)), None)
FirstWhere(seq, P(_)) ==
    IF \E i \in 1..Len(seq) : P(seq[i])
    THEN seq[CHOOSE i \in 1..Len(seq) : P(seq[i]) /\ \A j \in 1..(i - 1) : ~P(seq[j])]
    ELSE None

collect_roles_from_table ==
    LET item(row) == FirstWhere(files_cache, LAMBDA x : x.name = row.name)
        found == SelectSeq(tbody, LAMBDA row : item(row) # None)
        roles == [i \in 1..Len(found) |-> [item(found[i]) EXCEPT !.role = found[i].sel]]
    IN  SelectSeq(roles, LAMBDA r : r.role # "ignore" /\ r.start # None)

DtLe(a, b) == Instant(a) <= Instant(b)

build_plan_keepinferred(roles, infer_missing) ==
    LET swim == FirstWhere(roles, LAMBDA r : r.role = "swim")
        bike == FirstWhere(roles, LAMBDA r : r.role = "bike")
        run == FirstWhere(roles, LAMBDA r : r.role = "run")
        transitions == SelectSeq(roles, LAMBDA r : r.role = "transition")
        t1_item == FirstWhere(transitions,
                      LAMBDA t : DtLe(swim.stop, t.start) /\ DtLe(t.start, bike.start))
        t2_item == FirstWhere(transitions,
                      LAMBDA t : DtLe(bike.stop, t.start) /\ DtLe(t.start, run.start))
    IN  IF ~(Truthy(swim) /\ Truthy(bike) /\ Truthy(run))
        THEN [plan |-> None,
              err |-> Some("Need at least one Swim, one Bike, and one Run (topmost per role is used).")]
        ELSE [plan |-> [swim |-> swim, bike |-> bike, run |-> run,
                        t1_file |-> t1_item, t2_file |-> t2_item,
                        t1_inferred |->
                           IF infer_missing
                           THEN Some(Max(0, Instant(bike.start) - Instant(swim.stop)))
                           ELSE None,
                        t2_inferred |->
                           IF infer_missing
                           THEN Some(Max(0, Instant(run.start) - Instant(bike.stop)))
                           ELSE None],
              err |-> None]

build_plan_lastwins(roles, infer_missing) ==
    LET rev == [i \in 1..Len(roles) |-> roles[Len(roles) + 1 - i]]
        swim == FirstWhere(rev, LAMBDA r : r.role = "swim")
        bike == FirstWhere(rev, LAMBDA r : r.role = "bike")
        run == FirstWhere(rev, LAMBDA r : r.role = "run")
        transitions == SelectSeq(rev, LAMBDA r : r.role = "transition")
        t1_item == FirstWhere(transitions,
                      LAMBDA t : DtLe(swim.stop, t.start) /\ DtLe(t.start, bike.start))
        t2_item == FirstWhere(transitions,
                      LAMBDA t : DtLe(bike.stop, t.start) /\ DtLe(t.start, run.start))
    IN  IF ~(Truthy(swim) /\ Truthy(bike) /\ Truthy(run))
        THEN [plan |-> None,
              err |-> Some("Need at least one Swim, one Bike, and one Run (topmost per role is used).")]
        ELSE [plan |-> [swim |-> swim, bike |-> bike, run |-> run,
                        t1_file |-> t1_item, t2_file |-> t2_item,
                        t1_inferred |->
                           IF infer_missing /\ t1_item = None
                           THEN Some(Max(0, Instant(bike.start) - Instant(swim.stop)))
                           ELSE None,
                        t2_inferred |->
                           IF infer_missing /\ t2_item = None
                           THEN Some(Max(0, Instant(run.start) - Instant(bike.stop)))
                           ELSE None],
              err |-> None]

build_plan(roles, infer_missing) ==
    LET swim == FirstWhere(roles, LAMBDA r : r.role = "swim")
        bike == FirstWhere(roles, LAMBDA r : r.role = "bike")
        run == FirstWhere(roles, LAMBDA r : r.role = "run")
        transitions == SelectSeq(roles, LAMBDA r : r.role = "transition")
        t1_item == FirstWhere(transitions,
                      LAMBDA t : DtLe(swim.stop, t.start) /\ DtLe(t.start, bike.start))
        t2_item == FirstWhere(transitions,
                      LAMBDA t : DtLe(bike.stop, t.start) /\ DtLe(t.start, run.start))
    IN  IF ~(Truthy(swim) /\ Truthy(bike) /\ Truthy(run))
        THEN [plan |-> None,
              err |-> Some("Need at least one Swim, one Bike, and one Run (topmost per role is used).")]
        ELSE [plan |-> [swim |-> swim, bike |-> bike, run |-> run,
                        t1_file |-> t1_item, t2_file |-> t2_item,
                        t1_inferred |->
                           IF infer_missing /\ t1_item = None
                           THEN Some(Max(0, Instant(bike.start) - Instant(swim.stop)))
                           ELSE None,
                        t2_inferred |->
                           IF infer_missing /\ t2_item = None
                           THEN Some(Max(0, Instant(run.start) - Instant(bike.stop)))
                           ELSE None],
              err |-> None]

\* The recordings of the scanned files; the rows stand in the order of files_cache.
RowRecordings == {p \in Recordings(0) : Len(p) \in 1..MaxRowPts}

ScannedFile(i, role, pts) ==
    [name |-> FileName(i), role |-> role, points |-> pts,
     start |-> IF pts # <<>> THEN iso_to_dt(pts[1].time) ELSE None,
     stop |-> IF pts # <<>> THEN iso_to_dt(pts[Len(pts)].time) ELSE None,
     count |-> Len(pts)]

InitApp ==
    /\ pc = "idle"
    /\ \E n \in 0..MaxRows :
       \E sel \in [1..n -> RoleValues], rec \in [1..n -> RowRecordings] :
          /\ files_cache = [i \in 1..n |-> ScannedFile(i, sel[i], rec[i])]
          /\ tbody = [i \in 1..n |-> [name |-> FileName(i), sel |-> sel[i]]]
    /\ dom \in [infer : BOOLEAN, compact : BOOLEAN, mergeStatus : {""}]
    /\ download = None
    /\ plan = None
    /\ xml_bytes = None
    /\ CliIdle
    /\ rb = None
    /\ sl = None
    /\ tasks = <<>>

\* app.py merge_click; build_tcx_from_plan of app.py is core.py's, statement for
\* statement, and is modelled by the same operator.
merge_click ==
    /\ pc = "idle"
    /\ \E res \in {build_plan(collect_roles_from_table, dom.infer)} :
          IF res.err # None
          THEN /\ dom' = [dom EXCEPT !.mergeStatus = res.err.val]
               /\ UNCHANGED <<plan, xml_bytes, download>>
          ELSE \E built \in {build_tcx_from_plan(res.plan, dom.compact, None)} :
               /\ plan' = res.plan
               /\ xml_bytes' = built.doc
               /\ download' = built.doc
               /\ dom' = [dom EXCEPT !.mergeStatus = "Done"]
    /\ UNCHANGED <<pc, files_cache, tbody, cliVars, rb, sl, tasks>>

Init == InitCli \/ InitApp

Next ==
    \/ main_read
    \/ main_plan
    \/ main_preview
    \/ main_build
    \/ main_write
    \/ merge_click

Spec == Init /\ [][Next]_vars

\* ------------------------------------------------------------ rebase, alone
IsoTimes == {<<w, off>> : w \in Walls, off \in Offsets}
Datetimes == {iso_to_dt(t) : t \in IsoTimes}
HrValues == {None, Some(60)}
RebasePoints == {[time |-> t, hr |-> h] : t \in IsoTimes, h \in HrValues}
RebaseInputs == UNION {[1..n -> RebasePoints] : n \in 0..MaxPts}

InitRebase ==
    /\ pc = "rebase"
    /\ rb \in [points : RebaseInputs, t0 : Datetimes, t1 : Datetimes,
               first : {None}, again : {None}, direct : {None}]
    /\ plan = None
    /\ xml_bytes = None
    /\ CliIdle
    /\ AppIdle
    /\ sl = None
    /\ tasks = <<>>

\* rebase(points, t0)
rebase_first ==
    /\ pc = "rebase"
    /\ rb.first = None
    /\ rb' = [rb EXCEPT !.first = rebase(rb.points, rb.t0),
                      !.points = rebase_points_after(rb.points, rb.t0)]
    /\ UNCHANGED <<pc, plan, xml_bytes, cliVars, appVars, sl, tasks>>

\* rebase(rebase(points, t0)[0], t1)
rebase_again ==
    /\ pc = "rebase"
    /\ rb.first # None
    /\ ~rb.first.raised
    /\ rb.again = None
    /\ rb' = [rb EXCEPT !.again = rebase(rb.first.pts, rb.t1),
                      !.first.pts = rebase_points_after(rb.first.pts, rb.t1)]
    /\ UNCHANGED <<pc, plan, xml_bytes, cliVars, appVars, sl, tasks>>

\* rebase(points, t1)
rebase_direct ==
    /\ pc = "rebase"
    /\ rb.direct = None
    /\ rb' = [rb EXCEPT !.direct = rebase(rb.points, rb.t1),
                      !.points = rebase_points_after(rb.points, rb.t1)]
    /\ UNCHANGED <<pc, plan, xml_bytes, cliVars, appVars, sl, tasks>>

NextRebase ==
    \/ rebase_first
    \/ rebase_again
    \/ rebase_direct

SpecRebase == InitRebase /\ [][NextRebase]_vars

\* ------------------------------------------------------ summary line, alone
\* Longest leg or transition a summary line is rendered for, in seconds.
MaxDur == 3700

InitLine ==
    /\ pc = "line"
    /\ \E start \in Datetimes, dur \in 0..MaxDur, count \in {None, Some(1)} :
          sl = [label |-> "Bike", start |-> start, stop |-> DtAdd(start, dur),
                count |-> count, out |-> None]
    /\ plan = None
    /\ xml_bytes = None
    /\ CliIdle
    /\ AppIdle
    /\ rb = None
    /\ tasks = <<>>

\* line(label, start, stop, count)
line_call ==
    /\ pc = "line"
    /\ sl.out = None
    /\ sl' = [sl EXCEPT !.out = line(SumStart, sl.label, sl.start, sl.stop, sl.count)]
    /\ UNCHANGED <<pc, plan, xml_bytes, cliVars, appVars, rb, tasks>>

NextLine == line_call

SpecLine == InitLine /\ [][NextLine]_vars

\* ------------------------------------------------------------ browser, scan
\* Largest number of files in the file input's selection.
MaxFiles == 2
\* Largest number of clicks on the scan button.
MaxScans == 2

\* The record scan_click builds for the i-th selected file: parsed, with its
\* points, or the "ignore" record of a file that parse_any rejects.
Parsed(i) == {ScannedFile(i, "swim", p) : p \in {q \in Recordings(0) : Len(q) <= MaxRowPts}}
Rejected(i) == ScannedFile(i, "ignore", <<>>)

\* files_cache.sort(key = lambda x: x["start"] or datetime.max) compares an aware
\* start with the naive datetime.max as soon as both kinds of key are present.
SortRaises(cache) ==
    \E i, j \in 1..Len(cache) : cache[i].start = None /\ cache[j].start # None

SortKey(x) == IF x.start = None THEN 0 ELSE Instant(x.start)

\* x put behind the last element whose key is not greater (the sort is stable).
InsertByStart(sorted, x) ==
    LET n == Cardinality({i \in 1..Len(sorted) : SortKey(sorted[i]) <= SortKey(x)})
    IN  SubSeq(sorted, 1, n) \o <<x>> \o SubSeq(sorted, n + 1, Len(sorted))

RECURSIVE SortedByStart(_)
SortedByStart(cache) ==
    IF cache = <<>> THEN <<>>
    ELSE InsertByStart(SortedByStart(SubSeq(cache, 1, Len(cache) - 1)), cache[Len(cache)])

\* The orders a list can be left in by a sort that raised.
Reordered(cache) ==
    {[i \in 1..Len(cache) |-> cache[f[i]]] :
        f \in {g \in [1..Len(cache) -> 1..Len(cache)] :
                  \A a, b \in 1..Len(cache) : a # b => g[a] # g[b]}}

TableRows(cache) == [i \in 1..Len(cache) |-> [name |-> cache[i].name, sel |-> cache[i].role]]

InitScan ==
    /\ pc = "page"
    /\ \E n \in 0..MaxFiles :
       \E files \in [1..n -> UNION {Parsed(i) \cup {Rejected(i)} : i \in 1..MaxFiles}] :
          /\ \A i \in 1..n : files[i].name = FileName(i)
          /\ dom = [files |-> files, scanStatus |-> ""]
    /\ files_cache = <<>>
    /\ tbody = <<>>
    /\ download = None
    /\ tasks = <<>>
    /\ plan = None
    /\ xml_bytes = None
    /\ CliIdle
    /\ rb = None
    /\ sl = None

\* scan_click from its start to the first await, or to the early return.
scan_click ==
    /\ pc = "page"
    /\ Len(tasks) < MaxScans
    /\ tbody' = <<>>
    /\ files_cache' = <<>>
    /\ IF Len(dom.files) = 0
       THEN /\ dom' = [dom EXCEPT !.scanStatus = "Choose GPX/TCX files first."]
            /\ tasks' = Append(tasks, [at |-> "returned", i |-> 0])
       ELSE /\ dom' = [dom EXCEPT !.scanStatus = "Parsing"]
            /\ tasks' = Append(tasks, [at |-> "await", i |-> 1])
    /\ UNCHANGED <<pc, plan, xml_bytes, download, cliVars, rb, sl>>

\* read_file's future is resolved and a suspended scan_click goes on: it appends
\* the record of the file read and awaits the next file or, after the last, sorts
\* files_cache and appends one row per item.
scan_resume ==
    /\ pc = "page"
    /\ \E h \in 1..Len(tasks) :
          /\ tasks[h].at = "await"
          /\ \E cache \in {Append(files_cache, dom.files[tasks[h].i])} :
                IF tasks[h].i < Len(dom.files)
                THEN /\ files_cache' = cache
                     /\ tasks' = [tasks EXCEPT ![h].i = @ + 1]
                     /\ UNCHANGED <<tbody, dom>>
                ELSE IF SortRaises(cache)
                THEN /\ files_cache' \in Reordered(cache)
                     /\ tasks' = [tasks EXCEPT ![h].at = "TypeError"]
                     /\ UNCHANGED <<tbody, dom>>
                ELSE /\ files_cache' = SortedByStart(cache)
                     /\ tbody' = tbody \o TableRows(SortedByStart(cache))
                     /\ dom' = [dom EXCEPT !.scanStatus = "Loaded"]
                     /\ tasks' = [tasks EXCEPT ![h].at = "returned"]
    /\ UNCHANGED <<pc, plan, xml_bytes, download, cliVars, rb, sl>>

NextScan ==
    \/ scan_click
    \/ scan_resume

SpecScan == InitScan /\ [][NextScan]_vars

\* =================================================================== claims
CliAfterPlan == pc \in {"planned", "previewed", "built", "done", "exit", "traceback"}
CliPlanned == pc \in {"planned", "previewed", "built", "done", "traceback"} /\ plan # None
AppPlanned == pc = "idle" /\ plan # None

Acts == xml_bytes.activities
Required == {"swim", "bike", "run"}
LegsDefined(p) == IsDt(p.swim.start) /\ IsDt(p.bike.start) /\ IsDt(p.run.start)
GapT1(p) == Instant(p.bike.start) - Instant(p.swim.stop)
GapT2(p) == Instant(p.run.start) - Instant(p.bike.stop)

\* C1: an inferred transition duration is max(0, next.start - prev.stop) for T1
\* and for T2, hence never negative, also when the legs overlap.
C1_InferredGapClamped ==
    plan # None =>
        /\ (plan.t1_inferred # None =>
               /\ plan.t1_inferred.val = Max(0, GapT1(plan))
               /\ plan.t1_inferred.val >= 0)
        /\ (plan.t2_inferred # None =>
               /\ plan.t2_inferred.val = Max(0, GapT2(plan))
               /\ plan.t2_inferred.val >= 0)

\* A plan whose bike leg starts before the swim leg stops, with T1 inferred as 0.
C1_Witness ==
    /\ CliPlanned
    /\ plan.t1_inferred # None
    /\ GapT1(plan) < 0
    /\ plan.t1_inferred.val = 0

\* The preview lines among what was printed.
PreviewLines == SelectSeq(stdout, LAMBDA l : "start" \in DOMAIN l)

NoteOf(label) ==
    CASE label = "Swim" -> "Swim"
      [] label \in {"T1 (file)", "T1 (inferred)"} -> "Transition T1"
      [] label = "Bike" -> "Bike"
      [] label \in {"T2 (file)", "T2 (inferred)"} -> "Transition T2"
      [] label = "Run" -> "Run"

\* C2: the preview lines and the document's Activities are the same legs and
\* transitions in the same order, and each line renders the start and stop
\* instant its Activity uses (Id, StartTime, and the stop of the lap time), in
\* verbatim and in compact mode, for file-backed and inferred transitions.
C2_SummaryAgreesWithDocument ==
    pc \in {"built", "done"} =>
        /\ Len(PreviewLines) = Len(Acts)
        /\ \A i \in 1..Len(Acts) :
              /\ NoteOf(PreviewLines[i].label) = Acts[i].Notes
              /\ Instant(PreviewLines[i].start) = Instant(iso_to_dt(Acts[i].Id))
              /\ Acts[i].StartTime = Acts[i].Id
              /\ Instant(PreviewLines[i].stop) = Instant(iso_to_dt(Acts[i].stop_iso))
              /\ (PreviewLines[i].label = "T1 (file)" <=>
                     (Acts[i].Notes = "Transition T1" /\ plan.t1_file # None))
              /\ (PreviewLines[i].label = "T2 (file)" <=>
                     (Acts[i].Notes = "Transition T2" /\ plan.t2_file # None))

\* A compact run with a two-point T1 file and an inferred T2 of positive length,
\* the files written with a non-zero UTC offset.
C2_Witness ==
    /\ pc = "done"
    /\ config.COMPACT
    /\ plan.t1_file # None
    /\ plan.t1_file.count = 2
    /\ plan.t1_file.start.off # 0
    /\ Instant(plan.t1_file.stop) > Instant(plan.t1_file.start)
    /\ plan.t2_inferred # None
    /\ plan.t2_inferred.val > 0
    /\ Len(Acts) = 5
    /\ Len(PreviewLines) = 5

\* C3: plan building ends with the missing-leg error, and no plan, whenever one
\* of swim, bike, run is absent or has no start/stop (a recording without points).
C3_MissingLegIsAnError ==
    (CliAfterPlan /\ \E r \in Required : legs[r] = None \/ ~IsDt(legs[r].start)) =>
        /\ pc = "exit"
        /\ stderr = Some("Need Swim, Bike, and Run.")
        /\ plan = None

SlotAsClaimed(file, inferred, supplied, infer_missing) ==
    /\ ~(file # None /\ inferred # None)
    /\ (supplied # None => (file = supplied /\ inferred = None))
    /\ (supplied = None => (file = None /\ (inferred # None <=> infer_missing)))

\* The transition rows whose start lies in the gap between prev.stop and next.start.
Matching(prev, next) ==
    {r \in {collect_roles_from_table[i] : i \in 1..Len(collect_roles_from_table)} :
        /\ r.role = "transition"
        /\ Instant(prev.stop) <= Instant(r.start)
        /\ Instant(r.start) <= Instant(next.start)}

MatchedAsClaimed(file, inferred, matching, infer_missing) ==
    /\ ~(file # None /\ inferred # None)
    /\ (matching # {} => (file \in matching /\ inferred = None))
    /\ (matching = {} => (file = None /\ (inferred # None <=> infer_missing)))

\* C4: per transition slot of a returned plan at most one of t_file, t_inferred is
\* set: a supplied (cli) or matched (browser) transition leg is the slot's t_file
\* and nothing is inferred, also with infer_missing; without one, t_inferred is
\* set iff infer_missing.
C4_SlotFileOrInferred ==
    /\ CliPlanned =>
          /\ SlotAsClaimed(plan.t1_file, plan.t1_inferred, legs["t1"], config.INFER_MISSING)
          /\ SlotAsClaimed(plan.t2_file, plan.t2_inferred, legs["t2"], config.INFER_MISSING)
    /\ AppPlanned =>
          /\ MatchedAsClaimed(plan.t1_file, plan.t1_inferred,
                              Matching(plan.swim, plan.bike), dom.infer)
          /\ MatchedAsClaimed(plan.t2_file, plan.t2_inferred,
                              Matching(plan.bike, plan.run), dom.infer)

\* The browser matched a transition row to T1 although inference was requested,
\* and inferred T2.
C4_Witness ==
    /\ AppPlanned
    /\ dom.infer
    /\ plan.t1_file # None
    /\ plan.t1_inferred = None
    /\ plan.t2_file = None
    /\ plan.t2_inferred # None

\* C5: the Activity Ids of a document are pairwise distinct.
C5_IdsDistinct ==
    xml_bytes # None =>
        \A i, j \in 1..Len(Acts) : i # j => Acts[i].Id # Acts[j].Id

\* C6: the MultiSportSession holds one reference per Activity in emission order:
\* FirstSport the first Activity's Id, the k-th NextSport the (k+1)-th Activity's.
C6_SessionInEmissionOrder ==
    xml_bytes # None =>
        /\ Len(Acts) >= 1
        /\ xml_bytes.session.first = Acts[1].Id
        /\ Len(xml_bytes.session.next) = Len(Acts) - 1
        /\ \A k \in 1..(Len(Acts) - 1) : xml_bytes.session.next[k] = Acts[k + 1].Id

\* A document whose second Activity starts before its first: the chain keeps
\* the emission order.
C6_Witness ==
    /\ xml_bytes # None
    /\ Len(Acts) >= 3
    /\ Acts[2].Id[1] < Acts[1].Id[1]
    /\ xml_bytes.session.first = Acts[1].Id

SlotFilled(file, inferred) == file # None \/ inferred # None

ExpectedNotes(p) ==
    <<"Swim">>
    \o (IF SlotFilled(p.t1_file, p.t1_inferred) THEN <<"Transition T1">> ELSE <<>>)
    \o <<"Bike">>
    \o (IF SlotFilled(p.t2_file, p.t2_inferred) THEN <<"Transition T2">> ELSE <<>>)
    \o <<"Run">>

SportOf(note) ==
    CASE note = "Swim" -> "Swimming"
      [] note = "Bike" -> "Biking"
      [] note = "Run" -> "Running"
      [] OTHER -> "Other"

\* C7: the Activities are Swim, Transition T1 iff slot T1 is filled, Bike,
\* Transition T2 iff slot T2 is filled, Run, in this order, in both modes; five of
\* them when both transitions are inferred; an inferred transition holds exactly
\* two track points.
C7_ActivitiesInLegOrder ==
    xml_bytes # None =>
        /\ [i \in 1..Len(Acts) |-> Acts[i].Notes] = ExpectedNotes(plan)
        /\ \A i \in 1..Len(Acts) : Acts[i].Sport = SportOf(Acts[i].Notes)
        /\ (plan.t1_inferred # None /\ plan.t2_inferred # None) => Len(Acts) = 5
        /\ \A i \in 1..Len(Acts) :
              \/ /\ Acts[i].Notes = "Transition T1"
                 /\ plan.t1_inferred # None
                 /\ Len(Acts[i].Track) = 2
              \/ /\ Acts[i].Notes = "Transition T2"
                 /\ plan.t2_inferred # None
                 /\ Len(Acts[i].Track) = 2
              \/ /\ Acts[i].Notes = "Transition T1"
                 /\ plan.t1_file # None
              \/ /\ Acts[i].Notes = "Transition T2"
                 /\ plan.t2_file # None
              \/ Acts[i].Notes \in {"Swim", "Bike", "Run"}

\* No transition files, infer_missing: five Activities, T1 of length 0.
C7_Witness ==
    /\ pc = "done"
    /\ legs["t1"] = None
    /\ legs["t2"] = None
    /\ config.INFER_MISSING
    /\ plan.t1_inferred.val = 0
    /\ Len(Acts) = 5
    /\ Len(Acts[2].Track) = 2
    /\ Len(Acts[4].Track) = 2

\* Run's stop minus Swim's start in a document.
Elapsed(doc) ==
    Instant(iso_to_dt(doc.activities[Len(doc.activities)].stop_iso))
        - Instant(iso_to_dt(doc.activities[1].Id))

NonOverlapping(p) ==
    /\ LegsDefined(p)
    /\ Instant(p.swim.stop) <= Instant(p.bike.start)
    /\ Instant(p.bike.stop) <= Instant(p.run.start)

\* The timing mode the document of this state was built with.
Compact == IF pc = "idle" THEN dom.compact ELSE config.COMPACT

\* The document of the same plan in the other timing mode.
OtherMode == build_tcx_from_plan(plan, ~Compact, None)

\* C8, as claimed: for a plan without overlaps the compact document and the
\* verbatim document of the plan have the same total elapsed time.
C8_SameElapsedWithoutOverlap ==
    (xml_bytes # None /\ NonOverlapping(plan) /\ ~OtherMode.raised) =>
        Elapsed(xml_bytes) = Elapsed(OtherMode.doc)

\* C8, amended: the same, for the plans whose two transitions are both inferred.
C8_SameElapsedWhenInferred ==
    (xml_bytes # None /\ NonOverlapping(plan) /\ ~OtherMode.raised
       /\ plan.t1_inferred # None /\ plan.t2_inferred # None) =>
        Elapsed(xml_bytes) = Elapsed(OtherMode.doc)

\* A compact document of a plan with a positive inferred T1 and legs that last.
C8_Witness ==
    /\ pc = "done"
    /\ config.COMPACT
    /\ NonOverlapping(plan)
    /\ plan.t1_inferred # None
    /\ plan.t2_inferred # None
    /\ plan.t1_inferred.val > 0
    /\ Instant(plan.run.stop) > Instant(plan.run.start)
    /\ Elapsed(xml_bytes) > 0
    /\ Elapsed(xml_bytes) = Elapsed(OtherMode.doc)

\* C9: for a non-empty point list, rebasing to t0 and then to t1 returns start t1
\* and the very result of rebasing to t1 directly.
C9_RebaseTwice ==
    (pc = "rebase" /\ rb.points # <<>> /\ rb.again # None /\ rb.direct # None) =>
        /\ ~rb.again.raised
        /\ DtEq(rb.again.start, rb.t1)
        /\ rb.again.start = iso_to_dt(rb.again.pts[1].time)
        /\ rb.again = rb.direct

\* Two points, three different starts, offsets that differ.
C9_Witness ==
    /\ pc = "rebase"
    /\ Len(rb.points) = 2
    /\ rb.again # None
    /\ rb.direct # None
    /\ Instant(iso_to_dt(rb.points[1].time)) # Instant(rb.t0)
    /\ Instant(rb.t0) # Instant(rb.t1)
    /\ rb.points[1].time[2] # rb.t1.off
    /\ rb.points[2].time # rb.points[1].time
    /\ DtEq(rb.again.start, rb.t1)

\* C10: rebase of the empty list returns the empty list with start = stop = the
\* instant given, and raises nothing.
C10_RebaseEmpty ==
    (pc = "rebase" /\ rb.points = <<>> /\ rb.first # None) =>
        rb.first = [raised |-> FALSE, pts |-> <<>>, start |-> rb.t0, stop |-> rb.t0]

C10_Witness ==
    /\ pc = "rebase"
    /\ rb.points = <<>>
    /\ rb.first # None
    /\ ~rb.first.raised
    /\ rb.first.start = rb.t0

\* The instant of a timestamp text.
At(t) == Instant(iso_to_dt(t))

\* C11: rebase(points, t0) returns as many points in the same order, each with its
\* time moved by the one shift t0 - points[0].time and its other fields as they
\* were, and the call leaves the list it was given, and its points, as they were.
C11_RebaseShiftsOnlyTime ==
    [][(rebase_first /\ rb.points # <<>>) =>
          /\ ~rb'.first.raised
          /\ Len(rb'.first.pts) = Len(rb.points)
          /\ \A i \in 1..Len(rb.points) :
                /\ At(rb'.first.pts[i].time)
                      = At(rb.points[i].time) + (Instant(rb.t0) - At(rb.points[1].time))
                /\ rb'.first.pts[i].hr = rb.points[i].hr
                /\ DOMAIN rb'.first.pts[i] = DOMAIN rb.points[i]
          /\ rb'.points = rb.points]_vars

\* Two points rebased by a non-zero shift, the first with a heart rate.
C11_Witness ==
    /\ pc = "rebase"
    /\ rb.first # None
    /\ Len(rb.points) = 2
    /\ rb.points[1].hr = Some(60)
    /\ rb.points[2].hr = None
    /\ At(rb.points[2].time) > At(rb.points[1].time)
    /\ At(rb.first.pts[1].time) # At(rb.points[1].time)
    /\ rb.first.pts[1].hr = Some(60)

\* The plan's recording behind an Activity, or None for an inferred transition.
FileOf(note) ==
    CASE note = "Swim" -> plan.swim
      [] note = "Transition T1" -> plan.t1_file
      [] note = "Bike" -> plan.bike
      [] note = "Transition T2" -> plan.t2_file
      [] note = "Run" -> plan.run

\* The leg an inferred transition follows, and its inferred length.
Before(note) == IF note = "Transition T1" THEN plan.swim ELSE plan.bike
InferredSecs(note) ==
    IF note = "Transition T1" THEN plan.t1_inferred.val ELSE plan.t2_inferred.val

\* C12: in a verbatim document every Activity backed by a recording starts and
\* stops at the recording's start and stop and holds the recording's timestamps
\* as they are, and an inferred transition after leg A holds exactly the two
\* points A.stop and A.stop + duration, which are its start and its stop.
C12_VerbatimKeepsTimestamps ==
    (xml_bytes # None /\ ~Compact) =>
        \A i \in 1..Len(Acts) :
            IF FileOf(Acts[i].Notes) # None
            THEN /\ At(Acts[i].Id) = Instant(FileOf(Acts[i].Notes).start)
                 /\ At(Acts[i].StartTime) = Instant(FileOf(Acts[i].Notes).start)
                 /\ At(Acts[i].stop_iso) = Instant(FileOf(Acts[i].Notes).stop)
                 /\ Acts[i].Track = [j \in 1..Len(FileOf(Acts[i].Notes).points) |->
                                       FileOf(Acts[i].Notes).points[j].time]
            ELSE /\ Len(Acts[i].Track) = 2
                 /\ At(Acts[i].Track[1]) = Instant(Before(Acts[i].Notes).stop)
                 /\ At(Acts[i].Track[2]) = Instant(Before(Acts[i].Notes).stop)
                                              + InferredSecs(Acts[i].Notes)
                 /\ At(Acts[i].Id) = At(Acts[i].Track[1])
                 /\ At(Acts[i].StartTime) = At(Acts[i].Track[1])
                 /\ At(Acts[i].stop_iso) = At(Acts[i].Track[2])

\* A verbatim run over recordings written with a non-zero UTC offset, with a
\* two-point T1 file and an inferred T2 of positive length.
C12_Witness ==
    /\ pc = "done"
    /\ ~config.COMPACT
    /\ plan.t1_file # None
    /\ plan.t1_file.count = 2
    /\ plan.t1_file.start.off # 0
    /\ plan.t2_inferred # None
    /\ plan.t2_inferred.val > 0
    /\ Len(Acts) = 5
    /\ Acts[2].Track = <<plan.t1_file.points[1].time, plan.t1_file.points[2].time>>
    /\ At(Acts[4].Track[2]) > At(Acts[4].Track[1])

\* C13: a run of main whose plan building returns the error ends there, with the
\* message and with nothing printed, built or written; preview lines and a written
\* document exist only beside a plan; the document is written after the preview
\* lines, which do not change afterwards.  In the browser a failed plan building
\* leaves the message and hands over no document.
C13_ErrorBeforeOutput ==
    [][/\ (pc' = "exit" =>
              /\ stderr' = Some("Need Swim, Bike, and Run.")
              /\ plan' = None
              /\ stdout' = <<>>
              /\ xml_bytes' = None
              /\ out_file' = None)
       /\ (pc = "exit" => UNCHANGED vars)
       /\ ((PreviewLines' # <<>> \/ out_file' # None) => plan' # None)
       /\ (out_file' # out_file =>
              /\ PreviewLines # <<>>
              /\ PreviewLines' = PreviewLines
              /\ xml_bytes # None)
       /\ (out_file # None => PreviewLines' = PreviewLines)
       /\ ((merge_click /\ dom'.mergeStatus # "Done") =>
              /\ plan' = None
              /\ download' = None)]_vars

\* A run without a swim file, ended by the error.
C13_Witness ==
    /\ pc = "exit"
    /\ fs["swim"] = None
    /\ fs["bike"] # None
    /\ stderr = Some("Need Swim, Bike, and Run.")
    /\ stdout = <<>>
    /\ out_file = None

\* The number fields of "H:MM:SS" for an hour or more and of "M:SS" below it.
HMS(dur) ==
    IF dur >= 3600
    THEN <<dur \div 3600, (dur % 3600) \div 60, dur % 60>>
    ELSE <<dur \div 60, dur % 60>>

\* C14: the bracketed duration of a summary line is stop - start as H:MM:SS from
\* one hour on, minutes and seconds within 0..59, and as M:SS below one hour.
C14_DurationAsHMS ==
    (pc = "line" /\ sl.out # None) =>
        /\ ~sl.out.raised
        /\ <<sl.out.lines[1].m, sl.out.lines[1].s>>
              = HMS(Instant(sl.stop) - Instant(sl.start))

\* The rows handed to plan building, top row first.
Rows == collect_roles_from_table

\* leg is the topmost row that satisfies Candidate.
Topmost(leg, Candidate(_)) ==
    \E i \in 1..Len(Rows) :
        /\ Rows[i] = leg
        /\ Candidate(Rows[i])
        /\ \A j \in 1..(i - 1) : ~Candidate(Rows[j])

InWindow(r, prev, next) ==
    /\ r.role = "transition"
    /\ Instant(prev.stop) <= Instant(r.start)
    /\ Instant(r.start) <= Instant(next.start)

\* C15: each role of a plan is served by the topmost row that could serve it: the
\* topmost swim, bike and run row, and per transition slot the topmost transition
\* row whose start lies in the slot's window, whatever the rows' times.
C15_FirstInOrderWins ==
    AppPlanned =>
        /\ Topmost(plan.swim, LAMBDA r : r.role = "swim")
        /\ Topmost(plan.bike, LAMBDA r : r.role = "bike")
        /\ Topmost(plan.run, LAMBDA r : r.role = "run")
        /\ (plan.t1_file # None =>
               Topmost(plan.t1_file, LAMBDA r : InWindow(r, plan.swim, plan.bike)))
        /\ (plan.t2_file # None =>
               Topmost(plan.t2_file, LAMBDA r : InWindow(r, plan.bike, plan.run)))

\* Two transition rows in the T1 window, the upper one the later in time: the
\* upper one is the plan's T1.
C15_Witness ==
    /\ AppPlanned
    /\ plan.t1_file # None
    /\ \E i, j \in 1..Len(Rows) :
          /\ i < j
          /\ InWindow(Rows[i], plan.swim, plan.bike)
          /\ InWindow(Rows[j], plan.swim, plan.bike)
          /\ Instant(Rows[j].start) < Instant(Rows[i].start)
          /\ plan.t1_file = Rows[i]

\* The legs a plan refers to.
PlanLegs ==
    {plan.swim, plan.bike, plan.run} \cup ({plan.t1_file, plan.t2_file} \ {None})

\* C16: every leg of a built plan, required or transition, has at least one point,
\* a start and a stop, and start <= stop.
C16_PlanLegsNonEmpty ==
    (CliPlanned \/ AppPlanned) =>
        \A leg \in PlanLegs :
            /\ leg.count >= 1
            /\ leg.points # <<>>
            /\ IsDt(leg.start)
            /\ IsDt(leg.stop)
            /\ Instant(leg.start) <= Instant(leg.stop)

\* Start and stop instant of an Activity.
ActStart(i) == At(Acts[i].Id)
ActStop(i) == At(Acts[i].stop_iso)

Chronological(points) ==
    \A i, j \in 1..Len(points) : i <= j => At(points[i].time) <= At(points[j].time)

\* C17: a compact document is contiguous: the first Activity starts at the swim's
\* own start and every later one at the stop of the one before it; an Activity of
\* a recording keeps the recording's length, last point minus first, and every
\* point its distance to the first; an inferred transition lasts its inferred
\* duration; so with chronological recordings the starts never decrease.
C17_CompactIsContiguous ==
    (xml_bytes # None /\ Compact) =>
        /\ ActStart(1) = Instant(plan.swim.start)
        /\ \A i \in 2..Len(Acts) : ActStart(i) = ActStop(i - 1)
        /\ \A i \in 1..Len(Acts) :
              IF FileOf(Acts[i].Notes) = None
              THEN ActStop(i) - ActStart(i) = InferredSecs(Acts[i].Notes)
              ELSE /\ Len(Acts[i].Track) = Len(FileOf(Acts[i].Notes).points)
                   /\ \A j \in 1..Len(Acts[i].Track) :
                         At(Acts[i].Track[j]) - ActStart(i)
                           = At(FileOf(Acts[i].Notes).points[j].time)
                               - At(FileOf(Acts[i].Notes).points[1].time)
                   /\ ActStop(i) = IF Acts[i].Track = <<>> THEN ActStart(i)
                                   ELSE At(Acts[i].Track[Len(Acts[i].Track)])
        /\ (\A leg \in PlanLegs : Chronological(leg.points)) =>
              \A i \in 2..Len(Acts) : ActStart(i - 1) <= ActStart(i)

\* A compact run over overlapping recordings: the bike recording starts before
\* the swim recording stops and is moved to the cursor, behind a two-point T1 file.
C17_Witness ==
    /\ pc = "done"
    /\ config.COMPACT
    /\ plan.t1_file # None
    /\ plan.t1_file.count = 2
    /\ Instant(plan.t1_file.stop) > Instant(plan.t1_file.start)
    /\ plan.swim.count = 2
    /\ plan.bike.count = 2
    /\ Instant(plan.bike.start) < Instant(plan.swim.stop)
    /\ ActStart(3) # Instant(plan.bike.start)
    /\ ActStart(3) = ActStop(2)
    /\ ActStop(3) - ActStart(3) = Instant(plan.bike.stop) - Instant(plan.bike.start)

\* C18: when every scan_click started has returned, files_cache holds one record
\* per selected file, none twice and none of an earlier scan, and the table one
\* row per record.
C18_ScanLeavesOneRecordPerFile ==
    (pc = "page" /\ tasks # <<>> /\ \A h \in 1..Len(tasks) : tasks[h].at = "returned") =>
        /\ Len(files_cache) = Len(dom.files)
        /\ \A i \in 1..Len(dom.files) :
              Cardinality({k \in 1..Len(files_cache) : files_cache[k] = dom.files[i]}) = 1
        /\ Len(tbody) = Len(files_cache)
        /\ \A k \in 1..Len(files_cache) : tbody[k].name = files_cache[k].name

====
